---- MODULE Spec2Model ----
(***************************************************************************)
(* Crust Chainlink external adapter: createRequest (src/index.js) and      *)
(* sendTx (src/utils.js).  One request runs pin -> stat -> connect ->      *)
(* sendTx; sendTx wraps tx.signAndSend in a promise that the status        *)
(* callback settles.                                                       *)
(***************************************************************************)
EXTENDS Integers, Sequences, FiniteSets, TLC

\* ---------------------------------------------------------------- bounds
NumReq == 2
MaxNotifs == 2
MaxEvents == 2
MaxConcNotifs == 2

Req == 1..NumReq

\* ------------------------------------------------------------- constants
ErrorStatus == 500

Cids == {"QmTest1", "QmTest2"}
Sizes == {1024}
\* concurrent requests are given the same cid
ConcCids == {"QmTest1"}
PinStatuses == {200}

FailTags == {"Invalid", "Dropped", "Usurped", "Retracted"}
OtherTags == {"Future", "Ready", "Broadcast", "FinalityTimeout", "Finalized"}
Statuses == FailTags \cup OtherTags \cup {"InBlock"}

SysFailed == [section |-> "system", method |-> "ExtrinsicFailed"]
SysSuccess == [section |-> "system", method |-> "ExtrinsicSuccess"]
MarketFailed == [section |-> "market", method |-> "ExtrinsicFailed"]
MarketSuccess == [section |-> "market", method |-> "ExtrinsicSuccess"]
MarketFileSuccess == [section |-> "market", method |-> "FileSuccess"]
Events == {SysFailed, SysSuccess, MarketFailed, MarketSuccess, MarketFileSuccess}

EventLists == UNION {[1..n -> Events] : n \in 0..MaxEvents}

\* `events = []` is the callback's default; only InBlock carries events here
Notifications ==
    {[status |-> s, events |-> <<>>] : s \in FailTags \cup OtherTags}
    \cup {[status |-> "InBlock", events |-> es] : es \in EventLists}

\* the notifications used when several requests run concurrently
CoreNotifications ==
    {[status |-> s, events |-> <<>>] :
        s \in {"Ready", "Dropped", "Retracted", "Finalized", "InBlock"}}
    \cup {[status |-> "InBlock", events |-> <<e>>] : e \in {SysSuccess, SysFailed}}

NoNote == [status |-> "none", events |-> <<>>]

\* --------------------------------------------------------------- promise
Pending == [state |-> "pending", value |-> "none"]
Confirmed == [state |-> "fulfilled", value |-> "true"]
Rejected == [state |-> "fulfilled", value |-> "false"]
InvalidTxMsg == "Invalid transaction"
Invalidated == [state |-> "rejected", value |-> InvalidTxMsg]
SubmissionError == [state |-> "rejected", value |-> "SubmissionError"]
InvalidSeedError == [state |-> "rejected", value |-> "InvalidSeedError"]

\* a promise settles at most once: resolve/reject on a settled promise
\* do nothing
SettleAlways(p, st, v) == [state |-> st, value |-> v]

Settle(p, st, v) ==
    IF p.state = "pending" THEN [state |-> st, value |-> v] ELSE p

resolve(p, v) == Settle(p, "fulfilled", v)
reject(p, v) == Settle(p, "rejected", v)

\* body of events.forEach at src/utils.js:30-39, one event
OnEvent(p, e) ==
    IF e.section = "system" /\ e.method = "ExtrinsicFailed"
    THEN resolve(p, "false")
    ELSE IF e.method = "ExtrinsicSuccess"
         THEN resolve(p, "true")
         ELSE p

\* a scan that lets the failure event win wherever it stands
ForEachEventFailFirst(p, es) ==
    IF \E k \in 1..Len(es) : es[k] = SysFailed THEN resolve(p, "false")
    ELSE IF \E k \in 1..Len(es) : es[k].method = "ExtrinsicSuccess"
         THEN resolve(p, "true")
         ELSE p

RECURSIVE ForEachEvent(_, _)
ForEachEvent(p, es) ==
    IF es = <<>> THEN p
    ELSE ForEachEvent(OnEvent(p, Head(es)), Tail(es))

\* variants of the status callback
OnStatusNoRetracted(p, n) ==
    LET p1 == IF n.status \in FailTags \ {"Retracted"}
              THEN reject(p, InvalidTxMsg) ELSE p
    IN IF n.status = "InBlock" THEN ForEachEvent(p1, n.events) ELSE p1

OnStatusFinalized(p, n) ==
    LET p1 == IF n.status \in FailTags THEN reject(p, InvalidTxMsg) ELSE p
    IN IF n.status = "Finalized" THEN ForEachEvent(p1, n.events) ELSE p1

OnStatusTagReason(p, n) ==
    LET p1 == IF n.status \in FailTags THEN reject(p, n.status) ELSE p
    IN IF n.status = "InBlock" THEN ForEachEvent(p1, n.events) ELSE p1

OnStatusInBlockIsSuccess(p, n) ==
    LET p1 == IF n.status \in FailTags THEN reject(p, InvalidTxMsg) ELSE p
    IN IF n.status = "InBlock"
       THEN resolve(ForEachEvent(p1, n.events), "true")
       ELSE p1

\* the status callback handed to tx.signAndSend
OnStatus(p, n) ==
    LET p1 == IF n.status \in FailTags THEN reject(p, InvalidTxMsg) ELSE p
    IN IF n.status = "InBlock" THEN ForEachEvent(p1, n.events) ELSE p1

\* ------------------------------------------------------------ the caller
NoResp == [code |-> 0, kind |-> "none", result |-> "none", error |-> "none"]

Errored(err) ==
    [code |-> ErrorStatus, kind |-> "errored", result |-> "none", error |-> err]

Success(status, c) ==
    [code |-> status, kind |-> "success", result |-> c, error |-> "none"]

CallbackArgsThrowOnFalse(p, status, c) ==
    IF p = Confirmed THEN Success(status, c)
    ELSE IF p = Rejected THEN Errored(InvalidTxMsg) ELSE Errored(p.value)

\* what createRequest hands to the callback once `await sendTx` returns
\* or throws
CallbackArgs(p, status, c) ==
    IF p.state = "fulfilled" THEN Success(status, c) ELSE Errored(p.value)

\* ----------------------------------------------------------------- state
VARIABLES
    pc,          \* position of each createRequest invocation
    cid,         \* validated data.cid
    pinStatus,   \* response.status of the pin request
    size,        \* statRes.cumulativeSize of the size lookup
    promise,     \* the promise returned by sendTx
    sub,         \* progress of tx.signAndSend
    nonce,       \* nonce the transaction was signed with
    log,         \* statuses handed to the status callback, in order
    last,        \* the last notification handed to the status callback
    seenRes,     \* a resolving notification has been handed to the callback
    resp,        \* arguments of the last callback(statusCode, data)
    calls,       \* number of callback invocations
    chainNonce   \* the account's on-chain nonce

vars == <<pc, cid, pinStatus, size, promise, sub, nonce, log, last, seenRes,
          resp, calls, chainNonce>>

Init ==
    /\ pc = [i \in Req |-> "idle"]
    /\ cid = [i \in Req |-> "none"]
    /\ pinStatus = [i \in Req |-> 0]
    /\ size = [i \in Req |-> 0]
    /\ promise = [i \in Req |-> Pending]
    /\ sub = [i \in Req |-> "none"]
    /\ nonce = [i \in Req |-> -1]
    /\ log = [i \in Req |-> <<>>]
    /\ last = [i \in Req |-> NoNote]
    /\ seenRes = [i \in Req |-> FALSE]
    /\ resp = [i \in Req |-> NoResp]
    /\ calls = [i \in Req |-> 0]
    /\ chainNonce = 0

\* callback(statusCode, data)
Callback(i, r) ==
    /\ resp' = [resp EXCEPT ![i] = r]
    /\ calls' = [calls EXCEPT ![i] = @ + 1]
    /\ pc' = [pc EXCEPT ![i] = "done"]

\* createRequest up to Requester.request(ipfsConfig, customError)
CreateRequest(i, c) ==
    /\ pc[i] = "idle"
    /\ cid' = [cid EXCEPT ![i] = c]
    /\ pc' = [pc EXCEPT ![i] = "pin"]
    /\ UNCHANGED <<pinStatus, size, promise, sub, nonce, log, last, seenRes, resp, calls,
                   chainNonce>>

\* the pin request answered; .then runs up to `await ipfsClient.files.stat`
PinOk(i) ==
    /\ pc[i] = "pin"
    /\ \E s \in PinStatuses : pinStatus' = [pinStatus EXCEPT ![i] = s]
    /\ pc' = [pc EXCEPT ![i] = "stat"]
    /\ UNCHANGED <<cid, size, promise, sub, nonce, log, last, seenRes, resp, calls,
                   chainNonce>>

\* the pin request failed: .catch
PinFail(i) ==
    /\ pc[i] = "pin"
    /\ Callback(i, Errored("PinError"))
    /\ UNCHANGED <<cid, pinStatus, size, promise, sub, nonce, log, last, seenRes,
                   chainNonce>>

\* files.stat answered; runs up to `await crustChain.isReadyOrError`
StatOk(i) ==
    /\ pc[i] = "stat"
    /\ \E z \in Sizes : size' = [size EXCEPT ![i] = z]
    /\ pc' = [pc EXCEPT ![i] = "connect"]
    /\ UNCHANGED <<cid, pinStatus, promise, sub, nonce, log, last, seenRes,
                   resp, calls, chainNonce>>

\* the size lookup fails but the error is swallowed
StatFailIgnored(i) ==
    /\ pc[i] = "stat"
    /\ pc' = [pc EXCEPT ![i] = "connect"]
    /\ UNCHANGED <<cid, pinStatus, size, promise, sub, nonce, log, last,
                   seenRes, resp, calls, chainNonce>>

\* files.stat rejects: .catch
StatFail(i) ==
    /\ pc[i] = "stat"
    /\ Callback(i, Errored("StatError"))
    /\ UNCHANGED <<cid, pinStatus, size, promise, sub, nonce, log, last, seenRes,
                   chainNonce>>

ConnectFail(i) ==
    /\ pc[i] = "connect"
    /\ Callback(i, Errored("ConnectError"))
    /\ UNCHANGED <<cid, pinStatus, size, promise, sub, nonce, log, last, seenRes,
                   chainNonce>>

\* the key pair is derived only after tx.signAndSend was called
ConnectOkLateSeed(i) ==
    /\ pc[i] = "connect"
    /\ pc' = [pc EXCEPT ![i] = "await"]
    /\ sub' = [sub EXCEPT ![i] = "signing"]
    /\ \E seedOk \in BOOLEAN :
        IF seedOk
        THEN UNCHANGED promise
        ELSE promise' = [promise EXCEPT ![i] = InvalidSeedError]
    /\ UNCHANGED <<cid, pinStatus, size, nonce, log, last, seenRes, resp,
                   calls, chainNonce>>

\* the chain is ready: placeStorageOrder, then sendTx runs synchronously
\* through loadKeyringPair and the call of tx.signAndSend
ConnectOk(i) ==
    /\ pc[i] = "connect"
    /\ pc' = [pc EXCEPT ![i] = "await"]
    /\ \E seedOk \in BOOLEAN :
        IF seedOk
        THEN /\ sub' = [sub EXCEPT ![i] = "signing"]
             /\ UNCHANGED promise
        ELSE /\ promise' = [promise EXCEPT ![i] = InvalidSeedError]
             /\ UNCHANGED sub
    /\ UNCHANGED <<cid, pinStatus, size, nonce, log, last, seenRes, resp, calls,
                   chainNonce>>

\* nonce the next transaction of the account is signed with
NextFreeNonce(i) ==
    chainNonce + Cardinality({j \in Req : j # i /\ sub[j] \in {"signed", "open"}
                                          /\ nonce[j] >= chainNonce})

AccountNonce(i) == chainNonce

\* tx.signAndSend: the account nonce is read and the transaction signed
SignAndSendNonce(i) ==
    /\ sub[i] = "signing"
    /\ nonce' = [nonce EXCEPT ![i] = AccountNonce(i)]
    /\ sub' = [sub EXCEPT ![i] = "signed"]
    /\ UNCHANGED <<pc, cid, pinStatus, size, promise, log, last, seenRes, resp,
                   calls, chainNonce>>

\* tx.signAndSend: the signed transaction is submitted and watched
SignAndSendSubmit(i) ==
    /\ sub[i] = "signed"
    /\ sub' = [sub EXCEPT ![i] = "open"]
    /\ UNCHANGED <<pc, cid, pinStatus, size, promise, nonce, log, last, seenRes,
                   resp, calls, chainNonce>>

SignAndSendFailNoCatch(i) ==
    /\ sub[i] \in {"signing", "signed"}
    /\ sub' = [sub EXCEPT ![i] = "failed"]
    /\ UNCHANGED <<pc, cid, pinStatus, size, promise, nonce, log, last, seenRes,
                   resp, calls, chainNonce>>

\* tx.signAndSend rejects: .catch(e => reject(e))
SignAndSendFail(i) ==
    /\ sub[i] \in {"signing", "signed"}
    /\ sub' = [sub EXCEPT ![i] = "failed"]
    /\ promise' = [promise EXCEPT ![i] = reject(@, "SubmissionError")]
    /\ UNCHANGED <<pc, cid, pinStatus, size, nonce, log, last, seenRes, resp, calls,
                   chainNonce>>

HasEvent(n, e) == \E k \in 1..Len(n.events) : n.events[k] = e

HasSuccess(n) ==
    \E k \in 1..Len(n.events) : n.events[k].method = "ExtrinsicSuccess"

\* a failure-tagged status, or an InBlock carrying a success/failure event
IsResolving(n) ==
    \/ n.status \in FailTags
    \/ n.status = "InBlock" /\ (HasEvent(n, SysFailed) \/ HasSuccess(n))

\* the events the scan of the status callback reacts to
Matches(e) == e = SysFailed \/ e.method = "ExtrinsicSuccess"

FirstMatch(es) ==
    es[CHOOSE k \in 1..Len(es) :
          Matches(es[k]) /\ \A m \in 1..(k - 1) : ~Matches(es[m])]

InLog(i, t) == \E k \in 1..Len(log[i]) : log[i][k] = t

\* a block can include the transaction only while its nonce is the
\* account's current one
CanInclude(i) == nonce[i] = chainNonce \/ "InBlock" \in {log[i][k] : k \in 1..Len(log[i])}

FirstInclusion(i, n) ==
    n.status = "InBlock" /\ "InBlock" \notin {log[i][k] : k \in 1..Len(log[i])}

\* one outcome shared by all requests
DeliverShared(i, n) ==
    /\ sub[i] = "open"
    /\ Len(log[i]) < MaxNotifs
    /\ n.status = "InBlock" => CanInclude(i)
    /\ promise' = [j \in Req |-> OnStatus(promise[j], n)]
    /\ log' = [log EXCEPT ![i] = Append(@, n.status)]
    /\ last' = [last EXCEPT ![i] = n]
    /\ seenRes' = [seenRes EXCEPT ![i] = @ \/ IsResolving(n)]
    /\ chainNonce' = IF FirstInclusion(i, n) THEN chainNonce + 1 ELSE chainNonce
    /\ UNCHANGED <<pc, cid, pinStatus, size, sub, nonce, resp, calls>>

\* failure tags are honoured only before the first InBlock
DeliverBeforeInBlockOnly(i, n) ==
    /\ sub[i] = "open"
    /\ Len(log[i]) < MaxNotifs
    /\ n.status = "InBlock" => CanInclude(i)
    /\ promise' = [promise EXCEPT ![i] =
            IF n.status \in FailTags
               /\ "InBlock" \in {log[i][k] : k \in 1..Len(log[i])}
            THEN @ ELSE OnStatus(@, n)]
    /\ log' = [log EXCEPT ![i] = Append(@, n.status)]
    /\ last' = [last EXCEPT ![i] = n]
    /\ seenRes' = [seenRes EXCEPT ![i] = @ \/ IsResolving(n)]
    /\ chainNonce' = IF FirstInclusion(i, n) THEN chainNonce + 1 ELSE chainNonce
    /\ UNCHANGED <<pc, cid, pinStatus, size, sub, nonce, resp, calls>>

\* the node notifies the status callback
Deliver(i, n) ==
    /\ sub[i] = "open"
    /\ Len(log[i]) < MaxNotifs
    /\ n.status = "InBlock" => CanInclude(i)
    /\ promise' = [promise EXCEPT ![i] = OnStatus(@, n)]
    /\ log' = [log EXCEPT ![i] = Append(@, n.status)]
    /\ last' = [last EXCEPT ![i] = n]
    /\ seenRes' = [seenRes EXCEPT ![i] = @ \/ IsResolving(n)]
    /\ chainNonce' = IF FirstInclusion(i, n) THEN chainNonce + 1 ELSE chainNonce
    /\ UNCHANGED <<pc, cid, pinStatus, size, sub, nonce, resp, calls>>

\* no .catch: a thrown `await sendTx` is never reported
RespondOnlyFulfilled(i) ==
    /\ pc[i] = "await"
    /\ promise[i].state = "fulfilled"
    /\ Callback(i, CallbackArgs(promise[i], pinStatus[i], cid[i]))
    /\ UNCHANGED <<cid, pinStatus, size, promise, sub, nonce, log, last,
                   seenRes, chainNonce>>

\* callback invoked again for a request already answered
RespondRepeat(i) ==
    /\ pc[i] \in {"await", "done"}
    /\ calls[i] < 2
    /\ promise[i].state # "pending"
    /\ Callback(i, CallbackArgs(promise[i], pinStatus[i], cid[i]))
    /\ UNCHANGED <<cid, pinStatus, size, promise, sub, nonce, log, last,
                   seenRes, chainNonce>>

\* `await sendTx(...)` returns or throws; callback is invoked
Respond(i) ==
    /\ pc[i] = "await"
    /\ promise[i].state # "pending"
    /\ Callback(i, CallbackArgs(promise[i], pinStatus[i], cid[i]))
    /\ UNCHANGED <<cid, pinStatus, size, promise, sub, nonce, log, last, seenRes,
                   chainNonce>>

Next ==
    \E i \in {1} :
        \/ \E c \in Cids : CreateRequest(i, c)
        \/ PinOk(i)
        \/ PinFail(i)
        \/ StatOk(i)
        \/ StatFail(i)
        \/ ConnectOk(i)
        \/ ConnectFail(i)
        \/ SignAndSendNonce(i)
        \/ SignAndSendSubmit(i)
        \/ SignAndSendFail(i)
        \/ \E n \in Notifications : Deliver(i, n)
        \/ Respond(i)

Spec == Init /\ [][Next]_vars

\* the event loop runs the continuation of a settled `await sendTx`
SpecLive == Spec /\ WF_vars(Respond(1))

RECURSIVE SumLen(_)
SumLen(S) ==
    IF S = {} THEN 0
    ELSE LET i == CHOOSE x \in S : TRUE IN Len(log[i]) + SumLen(S \ {i})

\* several createRequest invocations interleave at their awaits
NextConc ==
    \E i \in Req :
        \/ \E c \in ConcCids : CreateRequest(i, c)
        \/ PinOk(i)
        \/ PinFail(i)
        \/ StatOk(i)
        \/ StatFail(i)
        \/ ConnectOk(i)
        \/ ConnectFail(i)
        \/ SignAndSendNonce(i)
        \/ SignAndSendSubmit(i)
        \/ SignAndSendFail(i)
        \/ \E n \in CoreNotifications :
              SumLen(Req) < MaxConcNotifs /\ Deliver(i, n)
        \/ Respond(i)

SpecConc == Init /\ [][NextConc]_vars

TypeOK ==
    /\ pc \in [Req -> {"idle", "pin", "stat", "connect", "await", "done"}]
    /\ sub \in [Req -> {"none", "signing", "signed", "open", "failed"}]
    /\ \A i \in Req : promise[i].state \in {"pending", "fulfilled", "rejected"}
    /\ \A i \in Req : Len(log[i]) <= MaxNotifs

\* ================================================================ claims
\* the status callback ran in this step for request i
Delivered(i) == log'[i] # log[i]

\* C1: the caller gets a success response only if sendTx resolved true; a
\* transaction whose execution failed (sendTx resolved false) is reported
\* as a failure.
C1_SuccessOnlyIfConfirmed ==
    \A i \in Req : resp[i].kind = "success" => promise[i] = Confirmed

\* C2: the promise of one sendTx call settles at most once; no later
\* notification changes a settled outcome.
C2_SettlesOnce ==
    [][\A i \in Req :
        promise[i].state # "pending" => promise'[i] = promise[i]]_vars

C2_Witness ==
    /\ promise[1] = Confirmed
    /\ Len(log[1]) = 2
    /\ log[1][1] = "InBlock"
    /\ log[1][2] \in FailTags

\* C3: when the first resolving notification is an InBlock whose event
\* list contains system.ExtrinsicFailed, sendTx resolves false, whatever
\* else the list holds and in whatever order.
C3_FailedEventRejects ==
    [][\A i \in Req :
        (/\ Delivered(i)
         /\ ~seenRes[i]
         /\ last'[i].status = "InBlock"
         /\ HasEvent(last'[i], SysFailed))
        => promise'[i] = Rejected]_vars

\* C4: a status in {Invalid, Dropped, Usurped, Retracted} delivered before
\* any other resolving notification settles sendTx as Invalidated, and
\* that outcome stays whatever arrives afterwards.
C4_FailTagInvalidates ==
    [][\A i \in Req :
        /\ (Delivered(i) /\ ~seenRes[i] /\ last'[i].status \in FailTags)
            => promise'[i] = Invalidated
        /\ promise[i] = Invalidated => promise'[i] = Invalidated]_vars

C4_Witness ==
    /\ promise[1] = Invalidated
    /\ Len(log[1]) = 2
    /\ log[1][1] = "Retracted"
    /\ last[1].status = "InBlock"
    /\ HasSuccess(last[1])

\* C5: an InBlock carrying ExtrinsicSuccess and no failure event, delivered
\* before any other resolving notification, resolves sendTx to true in the
\* very step that processes it; no Finalized notification is needed.
C5_ConfirmedAtInBlock ==
    [][\A i \in Req :
        (/\ Delivered(i)
         /\ ~seenRes[i]
         /\ last'[i].status = "InBlock"
         /\ HasSuccess(last'[i])
         /\ ~HasEvent(last'[i], SysFailed))
        => promise'[i] = Confirmed]_vars

C5_Witness ==
    /\ promise[1] = Confirmed
    /\ pc[1] = "done"
    /\ \A k \in 1..Len(log[1]) : log[1][k] # "Finalized"
    /\ last[1].status = "InBlock"

\* C6: once sendTx has settled, the subscription is torn down and no
\* further notification reaches the status callback.
C6_NoDeliveryAfterSettle ==
    [][\A i \in Req : promise[i].state # "pending" => ~Delivered(i)]_vars

\* C7: when tx.signAndSend itself fails, sendTx rejects with that cause,
\* the status callback never runs and the caller gets a 500 error.
C7_SubmissionFailure ==
    \A i \in Req :
        sub[i] = "failed" =>
            /\ promise[i] = SubmissionError
            /\ log[i] = <<>>
            /\ pc[i] = "done" => resp[i] = Errored("SubmissionError")

C7_Witness ==
    sub[1] = "failed" /\ pc[1] = "done" /\ nonce[1] >= 0

\* C8: the caller-visible result of a Rejected transaction differs from
\* that of an Invalidated one.
C8_RejectedDiffersFromInvalidated ==
    \A i, j \in Req :
        (/\ pc[i] = "done" /\ promise[i] = Rejected
         /\ pc[j] = "done" /\ promise[j] = Invalidated)
        => resp[i] # resp[j]

C8_Witness ==
    \E i, j \in Req :
        /\ pc[i] = "done" /\ promise[i] = Rejected
        /\ pc[j] = "done" /\ promise[j] = Invalidated
        /\ cid[i] = cid[j]

C10_NonceRace ==
    [][\A i, j \in Req :
        (/\ i # j
         /\ sub[i] = "signing" /\ sub'[i] = "signed"
         /\ sub[j] \in {"signed", "open"}
         /\ nonce[j] = chainNonce)
        => nonce'[i] = nonce[j]]_vars

C10_Witness ==
    \E i, j \in Req :
        /\ i # j
        /\ sub[i] = "open" /\ sub[j] = "open"
        /\ nonce[i] = nonce[j]
        /\ pc[i] = "await" /\ pc[j] = "await"

\* C11: two invocations with the same cid and size each submit their own
\* transaction and settle their own outcome; a notification delivered for
\* one never changes the outcome, the log or the response of the other.
C11_Independent ==
    [][\A i, j \in Req :
        (i # j /\ Delivered(i))
        => /\ promise'[j] = promise[j]
           /\ log'[j] = log[j]
           /\ resp'[j] = resp[j]
           /\ sub'[j] = sub[j]]_vars

C11_Witness ==
    \E i, j \in Req :
        /\ i # j
        /\ cid[i] = cid[j] /\ size[i] = size[j] /\ size[i] \in Sizes
        /\ sub[i] = "open" /\ sub[j] = "open"
        /\ nonce[i] # nonce[j]
        /\ promise[i] = Confirmed
        /\ promise[j] = Invalidated

\* C12: a notification that is neither failure-tagged nor an InBlock with
\* an ExtrinsicSuccess or system.ExtrinsicFailed event leaves the outcome
\* as it was and makes no callback to the caller.
C12_OtherNotificationsIgnored ==
    [][\A i \in Req :
        (Delivered(i) /\ ~IsResolving(last'[i]))
        => /\ promise'[i] = promise[i]
           /\ calls'[i] = calls[i]
           /\ resp'[i] = resp[i]]_vars

C12_Witness ==
    /\ promise[1] = Pending
    /\ calls[1] = 0
    /\ log[1] = <<"InBlock", "Finalized">>
    /\ ~seenRes[1]

\* C13 (as stated): sendTx never settles as Invalidated once an InBlock
\* notification has been processed.
C13_InvalidatedOnlyBeforeInBlock ==
    [][\A i \in Req :
        (promise[i] # Invalidated /\ promise'[i] = Invalidated)
        => ~InLog(i, "InBlock")]_vars

\* C13 (amended): a failure tag settles sendTx as Invalidated whenever the
\* outcome is still pending, also after an InBlock notification that
\* carried no success or failure event.
C13_InvalidatedAfterInBlock ==
    [][\A i \in Req :
        (/\ Delivered(i)
         /\ InLog(i, "InBlock")
         /\ promise[i] = Pending
         /\ last'[i].status \in FailTags)
        => promise'[i] = Invalidated]_vars

C13_Witness ==
    /\ log[1] = <<"InBlock", "Retracted">>
    /\ promise[1] = Invalidated

\* C14: when an InBlock notification is the first resolving one, the first
\* event of its list that is system.ExtrinsicFailed or ExtrinsicSuccess
\* decides: Rejected for the failure event, Confirmed for the success one.
C14_FirstMatchDecides ==
    [][\A i \in Req :
        (/\ Delivered(i)
         /\ ~seenRes[i]
         /\ last'[i].status = "InBlock"
         /\ IsResolving(last'[i]))
        => promise'[i] = IF FirstMatch(last'[i].events) = SysFailed
                         THEN Rejected ELSE Confirmed]_vars

C14_Witness ==
    /\ Len(log[1]) = 1
    /\ last[1].status = "InBlock"
    /\ last[1].events = <<SysSuccess, SysFailed>>
    /\ promise[1] = Confirmed

\* C15: the steps run in the order pin, size lookup, connection, sendTx:
\* nothing is submitted unless pin and size lookup succeeded, and a failed
\* pin, size lookup or connection gives the caller a 500 error with no
\* transaction submitted.
C15_PipelineOrder ==
    \A i \in Req :
        /\ size[i] \in Sizes => pinStatus[i] \in PinStatuses
        /\ pc[i] = "await" => size[i] \in Sizes
        /\ (sub[i] # "none" \/ promise[i] # Pending)
            => (pinStatus[i] \in PinStatuses /\ size[i] \in Sizes)
        /\ resp[i].error \in {"PinError", "StatError", "ConnectError"}
            => /\ resp[i].code = ErrorStatus
               /\ resp[i].kind = "errored"
               /\ sub[i] = "none"
               /\ nonce[i] = -1
               /\ promise[i] = Pending

C15_Witness ==
    /\ pc[1] = "done"
    /\ resp[1] = Errored("StatError")
    /\ pinStatus[1] \in PinStatuses

\* C16: when loadKeyringPair throws, sendTx rejects without calling
\* tx.signAndSend: nothing is submitted, no subscription is opened, and
\* the caller gets a 500 error.
C16_InvalidSeed ==
    \A i \in Req :
        promise[i] = InvalidSeedError
        => /\ sub[i] = "none"
           /\ nonce[i] = -1
           /\ log[i] = <<>>
           /\ pc[i] = "done" => resp[i] = Errored("InvalidSeedError")

C16_Witness ==
    promise[1] = InvalidSeedError /\ pc[1] = "done" /\ calls[1] = 1

\* C17: once a resolving notification is in the stream of a submitted
\* transaction, sendTx is settled and the caller callback is eventually
\* invoked; while there is none, sendTx stays pending and the callback is
\* not invoked.
C17_EventuallyAnswered ==
    /\ \A i \in Req :
        seenRes[i] ~> (promise[i].state # "pending" /\ calls[i] > 0)
    /\ [](\A i \in Req :
            (sub[i] = "open" /\ ~seenRes[i])
            => (promise[i] = Pending /\ calls[i] = 0 /\ pc[i] = "await"))

C17_Witness ==
    /\ seenRes[1]
    /\ pc[1] = "done"
    /\ calls[1] = 1
    /\ promise[1] = Rejected

====
